---------------------------- MODULE Spec2Model ----------------------------
(***************************************************************************)
(* Model of livekit_plugins_agno/agno.py: the LLMAdapter facade, the       *)
(* AgnoStream driver (_run), the chat-context extractor (_get_user_input)  *)
(* and the event translator (_to_chat_chunk).                              *)
(*                                                                         *)
(* Python values are tagged records: None, str, list, dict and "any other  *)
(* object" (which has a truth value and a str() form).  Text is a TLA+     *)
(* string, so that joining and stringifying are real computations.         *)
(* ChatRole.USER is read as the role "user"; the text of a dict part is a  *)
(* str.  The host's channel and the wrapped agent are environment: the     *)
(* agent's stream yields, raises or ends nondeterministically.             *)
(***************************************************************************)
EXTENDS Naturals, Sequences, FiniteSets, TLC

VARIABLES
    adapter,   \* the LLMAdapter instance: _agent, _session_id, _user_id
    streams,   \* the AgnoStream instances, in the order chat() made them
    stubs,     \* the wrapped agent as seen per stream: arun calls, events, raise
    requests   \* the arguments the host gave each chat() call

vars == <<adapter, streams, stubs, requests>>

(* ------------------------------ bounds -------------------------------- *)
MaxEvents == 3     \* events one agent stream yields at most
MaxMsgs == 3       \* messages of a chat context
MaxParts == 3      \* parts of a multimodal content list
MaxTurns == 2      \* chat() calls of the multi-turn specification

(* --------------------------- Python values ---------------------------- *)
None == [t |-> "none"]
Str(s) == [t |-> "str", s |-> s]
\* any object that is no str, list or dict: bool(o) and str(o)
Obj(truthy, repr) == [t |-> "obj", truthy |-> truthy, repr |-> repr]
\* a dict part: only its "text" key matters to the code
Dict(has_text, text) == [t |-> "dict", has_text |-> has_text, text |-> text]
List(parts) == [t |-> "list", parts |-> parts]

\* bool(v)
Truthy(v) ==
    CASE v.t = "none" -> FALSE
      [] v.t = "str" -> v.s # ""
      [] v.t = "obj" -> v.truthy
      [] v.t = "list" -> v.parts # <<>>
      [] v.t = "dict" -> v.has_text
      [] OTHER -> TRUE    \* an object that defines no __bool__ / __len__

\* str(v), as TLA+ text
PyStr(v) ==
    CASE v.t = "none" -> "None"
      [] v.t = "str" -> v.s
      [] v.t = "obj" -> v.repr
      [] OTHER -> "{...}"

\* "".join(texts): the separator dropped
RECURSIVE Join_NoSep(_, _)
Join_NoSep(sep, texts) ==
    IF texts = <<>> THEN ""
    ELSE IF Len(texts) = 1 THEN texts[1]
    ELSE texts[1] \o Join_NoSep(sep, Tail(texts))

\* sep.join(texts)
RECURSIVE Join(_, _)
Join(sep, texts) ==
    IF texts = <<>> THEN ""
    ELSE IF Len(texts) = 1 THEN texts[1]
    ELSE texts[1] \o sep \o Join(sep, Tail(texts))

NoId == "<None>"          \* session_id / user_id left at their default None
NoExc == "<no exception>" \* the task has not raised

(* --------------------- _get_user_input (extractor) -------------------- *)
\* p.get("text", "") if isinstance(p, dict) else str(p)
PartText(p) ==
    IF p.t = "dict" THEN (IF p.has_text THEN p.text ELSE "") ELSE PyStr(p)

\* the body of the loop over reversed(messages), from index i downwards
RECURSIVE ScanMessages(_, _)
ScanMessages(messages, i) ==
    IF i = 0 THEN None
    ELSE LET msg == messages[i] IN
         IF msg.role = "user" /\ msg.content.t = "str" THEN msg.content
         ELSE IF msg.role = "user" /\ msg.content.t = "list"
              THEN Str(Join(" ", [k \in DOMAIN msg.content.parts |->
                                    PartText(msg.content.parts[k])]))
         ELSE ScanMessages(messages, i - 1)

GetUserInput(chat_ctx) == ScanMessages(chat_ctx, Len(chat_ctx))

(* ----------------------- _to_chat_chunk (translator) ------------------ *)
ChatChunk(content) ==
    [t |-> "ChatChunk", id |-> "agno",
     delta |-> [role |-> "assistant", content |-> content]]

\* the chain without the `and event.content` tests: None is stringified
EventContent_Ungated(event) ==
    IF event.cls = "RunContentEvent" THEN event.content
    ELSE IF event.cls = "RunOutput"
         THEN (IF event.content.t # "str" THEN Str(PyStr(event.content))
               ELSE event.content)
    ELSE IF event.has_content THEN Str(PyStr(event.content))
    ELSE None

\* the local `content` after the if / elif / elif chain
EventContent(event) ==
    IF event.cls = "RunContentEvent" THEN event.content
    ELSE IF event.cls = "RunOutput" /\ Truthy(event.content)
         THEN (IF event.content.t # "str" THEN Str(PyStr(event.content))
               ELSE event.content)
    ELSE IF event.has_content /\ Truthy(event.content)
         THEN Str(PyStr(event.content))
    ELSE None

ToChatChunk(event) ==
    IF Truthy(EventContent(event)) THEN ChatChunk(EventContent(event)) ELSE None

(* ------------------------------ inputs -------------------------------- *)
Agents == {"agentA", "agentB"}
SessionIds == {NoId, "room1"}
UserIds == {NoId, "alice"}
Exceptions == {"ConnectionError", "ValueError"}
ToolLists == {None, List(<<"get_weather">>)}

Event(cls, content) == [cls |-> cls, has_content |-> TRUE, content |-> content]
BareEvent == [cls |-> "Other", has_content |-> FALSE, content |-> None]

\* the event shapes of one content value each way the translator reads it
EventContents ==
    {None, Str(""), Str("Hi"), Obj(TRUE, "7"), Obj(FALSE, "0"), Obj(TRUE, "")}
Events ==
    {Event(c, v) : c \in {"RunContentEvent", "RunOutput", "Other"},
                   v \in EventContents} \cup {BareEvent}

\* the events of the driver's runs
EventSamples ==
    { Event("RunContentEvent", Str("Hi")), Event("RunContentEvent", Str("")),
      Event("RunContentEvent", Str(" there")), Event("RunOutput", Str("Hi there")),
      Event("Other", Obj(TRUE, "7")), BareEvent }

Message(role, content) == [role |-> role, content |-> content]

SeqsUpTo(S, n) == UNION {[1..k -> S] : k \in 0..n}

\* contexts that vary the order and the roles of the messages
ScanContents == {None, Str(""), Str("A"), Str("B"), List(<<Dict(TRUE, "L")>>)}
ScanContexts ==
    SeqsUpTo({Message(r, c) : r \in {"user", "assistant"}, c \in ScanContents},
             MaxMsgs)

\* contexts that vary the parts of the last user message
Parts == {Dict(TRUE, "A"), Dict(TRUE, "B"), Dict(FALSE, ""), Str("C"),
          Obj(TRUE, "<img>")}
JoinContexts ==
    {<<Message("user", Str("old")), Message("user", List(ps)),
       Message("assistant", Str("ok"))>> : ps \in SeqsUpTo(Parts, MaxParts)}

\* the contexts of the driver's runs
ContextSamples ==
    { <<>>,
      <<Message("system", Str("be brief")), Message("assistant", Str("Hello"))>>,
      <<Message("user", Str(""))>>,
      <<Message("user", None)>>,
      <<Message("user", Str("What time is it?"))>>,
      <<Message("user", Str("hi")), Message("assistant", Str("Hello")),
        Message("user", List(<<Dict(TRUE, "and"), Str("now")>>))>> }

(* ------------------------------- state -------------------------------- *)
Init ==
    /\ adapter \in [agent : Agents, session_id : SessionIds, user_id : UserIds]
    /\ streams = <<>>
    /\ stubs = <<>>
    /\ requests = <<>>

Last(s) == s[Len(s)]

\* chat() passing the two identifiers in each other's place
Chat_SwappedIds(chat_ctx, tools) ==
    /\ streams' = Append(streams,
          [ chat_ctx |-> chat_ctx,
            tools |-> IF Truthy(tools) THEN tools ELSE List(<<>>),
            agent |-> adapter.agent,
            session_id |-> adapter.user_id,
            user_id |-> adapter.session_id,
            pc |-> "idle",
            user_input |-> None,
            chunk |-> None,
            event_ch |-> <<>>,
            exc |-> NoExc ])
    /\ stubs' = Append(stubs, [calls |-> <<>>, events |-> <<>>, raised |-> NoExc])
    /\ requests' = Append(requests, [chat_ctx |-> chat_ctx, tools |-> tools])
    /\ UNCHANGED adapter

\* LLMAdapter.chat: a new AgnoStream; its task has not run yet
Chat(chat_ctx, tools) ==
    /\ streams' = Append(streams,
          [ chat_ctx |-> chat_ctx,
            tools |-> IF Truthy(tools) THEN tools ELSE List(<<>>),
            agent |-> adapter.agent,
            session_id |-> adapter.session_id,
            user_id |-> adapter.user_id,
            pc |-> "idle",
            user_input |-> None,
            chunk |-> None,
            event_ch |-> <<>>,
            exc |-> NoExc ])
    /\ stubs' = Append(stubs, [calls |-> <<>>, events |-> <<>>, raised |-> NoExc])
    /\ requests' = Append(requests, [chat_ctx |-> chat_ctx, tools |-> tools])
    /\ UNCHANGED adapter

\* _run without the `if not user_input: return`
RunBegin_NoCheck(i) ==
    /\ streams[i].pc = "idle"
    /\ LET user_input == GetUserInput(streams[i].chat_ctx) IN
       /\ streams' = [streams EXCEPT ![i].user_input = user_input,
                                     ![i].pc = "streaming"]
       /\ stubs' = [stubs EXCEPT ![i].calls = Append(@,
             [ agent |-> streams[i].agent,
               input |-> user_input,
               stream |-> TRUE,
               session_id |-> streams[i].session_id,
               user_id |-> streams[i].user_id ])]
    /\ UNCHANGED <<adapter, requests>>

\* _run testing `if user_input is None` in place of `if not user_input`
RunBegin_NoneOnly(i) ==
    /\ streams[i].pc = "idle"
    /\ LET user_input == GetUserInput(streams[i].chat_ctx) IN
       IF user_input = None
       THEN /\ streams' = [streams EXCEPT ![i].user_input = user_input,
                                          ![i].pc = "done"]
            /\ UNCHANGED stubs
       ELSE /\ streams' = [streams EXCEPT ![i].user_input = user_input,
                                          ![i].pc = "streaming"]
            /\ stubs' = [stubs EXCEPT ![i].calls = Append(@,
                  [ agent |-> streams[i].agent,
                    input |-> user_input,
                    stream |-> TRUE,
                    session_id |-> streams[i].session_id,
                    user_id |-> streams[i].user_id ])]
    /\ UNCHANGED <<adapter, requests>>

\* AgnoStream._run up to the first await: extract, return or call arun
RunBegin(i) ==
    /\ streams[i].pc = "idle"
    /\ LET user_input == GetUserInput(streams[i].chat_ctx) IN
       IF ~Truthy(user_input)
       THEN /\ streams' = [streams EXCEPT ![i].user_input = user_input,
                                          ![i].pc = "done"]
            /\ UNCHANGED stubs
       ELSE /\ streams' = [streams EXCEPT ![i].user_input = user_input,
                                          ![i].pc = "streaming"]
            /\ stubs' = [stubs EXCEPT ![i].calls = Append(@,
                  [ agent |-> streams[i].agent,
                    input |-> user_input,
                    stream |-> TRUE,
                    session_id |-> streams[i].session_id,
                    user_id |-> streams[i].user_id ])]
    /\ UNCHANGED <<adapter, requests>>

\* the loop body without the `if chunk:` test
AgentYield_SendAlways(i, event) ==
    /\ streams[i].pc = "streaming"
    /\ Len(stubs[i].events) < MaxEvents
    /\ stubs' = [stubs EXCEPT ![i].events = Append(@, event)]
    /\ LET chunk == ToChatChunk(event) IN
       streams' = [streams EXCEPT
          ![i].chunk = chunk,
          ![i].event_ch = Append(@, chunk)]
    /\ UNCHANGED <<adapter, requests>>

\* one iteration of the async for: the stream yields `event`
AgentYield(i, event) ==
    /\ streams[i].pc = "streaming"
    /\ Len(stubs[i].events) < MaxEvents
    /\ stubs' = [stubs EXCEPT ![i].events = Append(@, event)]
    /\ LET chunk == ToChatChunk(event) IN
       streams' = [streams EXCEPT
          ![i].chunk = chunk,
          ![i].event_ch = IF Truthy(chunk) THEN Append(@, chunk) ELSE @]
    /\ UNCHANGED <<adapter, requests>>

\* the exception caught and raised again as another kind
AgentRaise_Wrapped(i, e) ==
    /\ streams[i].pc = "streaming"
    /\ stubs' = [stubs EXCEPT ![i].raised = e]
    /\ streams' = [streams EXCEPT ![i].pc = "failed", ![i].exc = "APIError"]
    /\ UNCHANGED <<adapter, requests>>

\* the stream raises: nothing in _run catches it
AgentRaise(i, e) ==
    /\ streams[i].pc = "streaming"
    /\ stubs' = [stubs EXCEPT ![i].raised = e]
    /\ streams' = [streams EXCEPT ![i].pc = "failed", ![i].exc = e]
    /\ UNCHANGED <<adapter, requests>>

\* the end of the stream not ending the loop
AgentEnd_Stuck(i) ==
    /\ streams[i].pc = "streaming"
    /\ UNCHANGED <<adapter, streams, stubs, requests>>

\* the stream is exhausted: the loop and _run end
AgentEnd(i) ==
    /\ streams[i].pc = "streaming"
    /\ streams' = [streams EXCEPT ![i].pc = "done"]
    /\ UNCHANGED <<adapter, stubs, requests>>

\* one chat turn
Next ==
    \/ streams = <<>> /\ \E c \in ContextSamples, t \in ToolLists : Chat(c, t)
    \/ \E i \in DOMAIN streams : RunBegin(i)
    \/ \E i \in DOMAIN streams, e \in EventSamples : AgentYield(i, e)
    \/ \E i \in DOMAIN streams, e \in Exceptions : AgentRaise(i, e)
    \/ \E i \in DOMAIN streams : AgentEnd(i)

Spec == Init /\ [][Next]_vars

\* the task runs and the agent's (finite) stream moves on; raising is the agent's choice
TaskProgress ==
    \/ \E i \in DOMAIN streams : RunBegin(i)
    \/ \E i \in DOMAIN streams, e \in EventSamples : AgentYield(i, e)
    \/ \E i \in DOMAIN streams : AgentEnd(i)

FairSpec == Spec /\ WF_vars(TaskProgress)

\* the extractor over every bounded chat context
NextExtract ==
    \/ streams = <<>> /\ \E c \in ScanContexts, t \in ToolLists : Chat(c, t)
    \/ streams = <<>> /\ \E c \in JoinContexts, t \in ToolLists : Chat(c, t)
    \/ \E i \in DOMAIN streams : RunBegin(i)

ExtractSpec == Init /\ [][NextExtract]_vars

\* the translator over every event shape, as the first event of a stream
NextTranslate ==
    \/ streams = <<>> /\ \E c \in ContextSamples, t \in ToolLists : Chat(c, t)
    \/ \E i \in DOMAIN streams : RunBegin(i)
    \/ \E i \in DOMAIN streams, e \in Events :
          stubs[i].events = <<>> /\ AgentYield(i, e)

TranslateSpec == Init /\ [][NextTranslate]_vars

\* several turns of one adapter, their tasks interleaved
TurnContexts == { <<Message("assistant", Str("Hello"))>>,
                  <<Message("user", Str("What time is it?"))>> }
TurnEvents == { Event("RunContentEvent", Str("It's 3 PM.")) }

NextTurns ==
    \/ /\ Len(streams) < MaxTurns
       /\ \E c \in TurnContexts, t \in ToolLists : Chat(c, t)
    \/ \E i \in DOMAIN streams : RunBegin(i)
    \/ \E i \in DOMAIN streams, e \in TurnEvents : AgentYield(i, e)
    \/ \E i \in DOMAIN streams, e \in Exceptions : AgentRaise(i, e)
    \/ \E i \in DOMAIN streams : AgentEnd(i)

TurnsSpec == Init /\ [][NextTurns]_vars

(* ------------------------------ claims -------------------------------- *)
HasUser(chat_ctx) == \E k \in DOMAIN chat_ctx : chat_ctx[k].role = "user"
Started(i) == streams[i].pc # "idle"
Ended(i) == streams[i].pc \in {"done", "failed"}
Deltas(event_ch) == [k \in DOMAIN event_ch |-> event_ch[k].delta.content]

\* the translator results that are present, in the order of the events
RECURSIVE PresentResults(_)
PresentResults(events) ==
    IF events = <<>> THEN <<>>
    ELSE LET result == ToChatChunk(Head(events)) IN
         (IF result # None THEN <<result>> ELSE <<>>)
            \o PresentResults(Tail(events))

\* C1: at every moment of a turn the output channel holds exactly the present
\* translator results of the events yielded so far, in arrival order: one
\* chunk per event with non-empty text, none for the others, nothing
\* reordered, merged or sent twice.
C1_ChunksInArrivalOrder ==
    \A i \in DOMAIN streams :
        streams[i].event_ch = PresentResults(stubs[i].events)

\* the stream "Hi", "", " there" gave the chunks "Hi" and " there"
C1_Witness ==
    \E i \in DOMAIN streams :
        /\ stubs[i].events = << Event("RunContentEvent", Str("Hi")),
                                Event("RunContentEvent", Str("")),
                                Event("RunContentEvent", Str(" there")) >>
        /\ Deltas(streams[i].event_ch) = << Str("Hi"), Str(" there") >>

\* C2: when the agent's stream raises after k events the run is failed with
\* that same exception, the chunks of the k events are in the channel, the
\* agent's run was invoked once, and a failed run sends and calls no more.
C2_FailedState ==
    \A i \in DOMAIN streams :
        streams[i].pc = "failed" =>
            /\ streams[i].exc \in Exceptions
            /\ streams[i].exc = stubs[i].raised
            /\ streams[i].event_ch = PresentResults(stubs[i].events)
            /\ Len(stubs[i].calls) = 1
C2_FailedStep ==
    \A i \in DOMAIN streams :
        streams[i].pc = "failed" =>
            /\ streams'[i] = streams[i]
            /\ stubs'[i] = stubs[i]
C2_ExceptionPropagates == []C2_FailedState /\ [][C2_FailedStep]_vars

\* a run that failed after two events, one of them sent as a chunk
C2_Witness ==
    \E i \in DOMAIN streams :
        /\ streams[i].pc = "failed"
        /\ streams[i].exc = "ValueError"
        /\ Len(stubs[i].events) = 2
        /\ Len(streams[i].event_ch) = 1

\* C3: with no user-role message in the chat context the run, once started,
\* is done without an exception, has sent no chunk and has never invoked the
\* agent's run (whose stream therefore yielded nothing).
C3_NoUserMessage ==
    \A i \in DOMAIN streams :
        (Started(i) /\ ~HasUser(streams[i].chat_ctx)) =>
            /\ streams[i].pc = "done"
            /\ streams[i].exc = NoExc
            /\ streams[i].event_ch = <<>>
            /\ stubs[i].calls = <<>>
            /\ stubs[i].events = <<>>

\* a started run over a non-empty context without user message
C3_Witness ==
    \E i \in DOMAIN streams :
        /\ Started(i)
        /\ streams[i].chat_ctx # <<>>
        /\ ~HasUser(streams[i].chat_ctx)

\* C4, as claimed: the run is invoked at most once, and exactly once with the
\* extracted text whenever the context holds a user-role message, whatever
\* its text; streaming is skipped only when there is no user-role message.
C4_StreamsWheneverUser ==
    \A i \in DOMAIN streams :
        /\ Len(stubs[i].calls) <= 1
        /\ Started(i) =>
              IF HasUser(streams[i].chat_ctx)
              THEN /\ Len(stubs[i].calls) = 1
                   /\ stubs[i].calls[1].input = streams[i].user_input
              ELSE stubs[i].calls = <<>>

\* C4, amended: the run is invoked at most once; a started run has invoked it
\* (once, with the extracted text, streaming entered) exactly when the
\* extractor returned non-empty text, and otherwise (absence or the empty
\* string) it is done with no call, no event and no chunk.
C4_StreamsWhenNonEmptyInput ==
    \A i \in DOMAIN streams :
        /\ Len(stubs[i].calls) <= 1
        /\ ~Started(i) => stubs[i].calls = <<>>
        /\ Started(i) =>
              LET extracted == GetUserInput(streams[i].chat_ctx) IN
              IF extracted # None /\ extracted # Str("")
              THEN /\ Len(stubs[i].calls) = 1
                   /\ stubs[i].calls[1].input = extracted
                   /\ stubs[i].calls[1].stream = TRUE
              ELSE /\ streams[i].pc = "done"
                   /\ stubs[i].calls = <<>>
                   /\ stubs[i].events = <<>>
                   /\ streams[i].event_ch = <<>>

\* a user message with empty text: the run is done without a call
C4_Witness ==
    \E i \in DOMAIN streams :
        /\ streams[i].chat_ctx = <<Message("user", Str(""))>>
        /\ streams[i].pc = "done"
        /\ stubs[i].calls = <<>>

\* the chunks of a stream whose final output is only a fallback
RECURSIVE FallbackResults(_, _)
FallbackResults(events, exposed) ==
    IF events = <<>> THEN <<>>
    ELSE LET event == Head(events)
             result == ToChatChunk(event)
             isIncrement == event.cls = "RunContentEvent" /\ result # None
             skipped == event.cls = "RunOutput" /\ exposed
         IN (IF result # None /\ ~skipped THEN <<result>> ELSE <<>>)
               \o FallbackResults(Tail(events), exposed \/ isIncrement)

\* C8: within one stream the content of a final output is sent as a chunk
\* only if no earlier content increment of that stream exposed text.
C8_FinalOutputOnlyFallback ==
    \A i \in DOMAIN streams :
        streams[i].event_ch = FallbackResults(stubs[i].events, FALSE)

\* C9: under fair scheduling of the task and a finite stream, a turn that was
\* started ends done unless the agent's stream raised; a run that is done or
\* failed never changes its channel or its state again.
C9_Terminates ==
    (Len(streams) = 1) ~>
        (Len(streams) = 1 /\ (streams[1].pc = "done" \/ stubs[1].raised # NoExc))
C9_EndedStep ==
    \A i \in DOMAIN streams :
        Ended(i) => /\ streams'[i].event_ch = streams[i].event_ch
                    /\ streams'[i].pc = streams[i].pc
C9_DoneAndQuiet == C9_Terminates /\ [][C9_EndedStep]_vars

\* one user message, one content event: one chunk, then done
C9_Witness ==
    \E i \in DOMAIN streams :
        /\ streams[i].chat_ctx = <<Message("user", Str("What time is it?"))>>
        /\ stubs[i].events = <<Event("RunContentEvent", Str("Hi"))>>
        /\ Deltas(streams[i].event_ch) = <<Str("Hi")>>
        /\ streams[i].pc = "done"

UserIndexes(chat_ctx) == {k \in DOMAIN chat_ctx : chat_ctx[k].role = "user"}
LastUser(chat_ctx) ==
    chat_ctx[CHOOSE k \in UserIndexes(chat_ctx) :
                \A j \in UserIndexes(chat_ctx) : j <= k]

\* the text of a part: a dict's text field, "" for a dict without one, and
\* the string form of anything that is no dict
TextOfPart(p) ==
    CASE p.t = "dict" /\ p.has_text -> p.text
      [] p.t = "dict" /\ ~p.has_text -> ""
      [] OTHER -> PyStr(p)

\* the text of a part when every part without a text field is stringified
TextOrStringForm(p) ==
    IF p.t = "dict" /\ p.has_text THEN p.text ELSE PyStr(p)

\* the texts of the parts, left to right, a single space between neighbours
RECURSIVE SpaceJoined(_)
SpaceJoined(texts) ==
    IF texts = <<>> THEN ""
    ELSE IF Len(texts) = 1 THEN texts[1]
    ELSE SpaceJoined(SubSeq(texts, 1, Len(texts) - 1))
            \o " " \o texts[Len(texts)]

\* the content of a message as the text the extractor hands on
ContentText(content) ==
    CASE content.t = "str" -> content
      [] content.t = "list" -> Str(SpaceJoined([k \in DOMAIN content.parts |-> TextOfPart(content.parts[k])]))
      [] OTHER -> content

\* C5: the extractor returns the content of the user-role message closest to
\* the end of the context, whatever precedes or follows it, and the absence
\* value exactly when the context has no user-role message.
C5_LastUserMessage ==
    \A i \in DOMAIN streams :
        Started(i) =>
            IF UserIndexes(streams[i].chat_ctx) = {}
            THEN streams[i].user_input = None
            ELSE /\ streams[i].user_input # None
                 /\ streams[i].user_input =
                       ContentText(LastUser(streams[i].chat_ctx).content)

\* C6, as claimed: for a list content the extractor returns the parts' texts
\* joined with single spaces, a part with a text field giving that text and
\* every part without one giving its string form.
C6_JoinStringifiesNonText ==
    \A i \in DOMAIN streams :
        (/\ Started(i)
         /\ HasUser(streams[i].chat_ctx)
         /\ LastUser(streams[i].chat_ctx).content.t = "list") =>
            streams[i].user_input =
                LET parts == LastUser(streams[i].chat_ctx).content.parts IN
                Str(SpaceJoined([k \in DOMAIN parts |-> TextOrStringForm(parts[k])]))

\* C6, amended: for a list content the extractor returns the parts' texts
\* joined with single spaces in list order, a dict part giving its text field
\* or the empty string when it has none, and every part that is no dict
\* giving its string form.
C6_JoinOfPartTexts ==
    \A i \in DOMAIN streams :
        (/\ Started(i)
         /\ HasUser(streams[i].chat_ctx)
         /\ LastUser(streams[i].chat_ctx).content.t = "list") =>
            streams[i].user_input =
                LET parts == LastUser(streams[i].chat_ctx).content.parts IN
                Str(SpaceJoined([k \in DOMAIN parts |-> TextOfPart(parts[k])]))

\* the parts {"text": "A"}, {"text": "B"}, "C" gave "A B C"
C6_Witness ==
    \E i \in DOMAIN streams :
        /\ Started(i)
        /\ HasUser(streams[i].chat_ctx)
        /\ LastUser(streams[i].chat_ctx).content =
              List(<<Dict(TRUE, "A"), Dict(TRUE, "B"), Str("C")>>)
        /\ streams[i].user_input = Str("A B C")

\* the tier of the priority order that applies to an event
Tier(event) ==
    CASE event.cls = "RunContentEvent" -> "increment"
      [] event.cls = "RunOutput" /\ Truthy(event.content) -> "output"
      [] event.cls # "RunContentEvent" /\ event.has_content
            /\ ~(event.cls = "RunOutput" /\ Truthy(event.content))
            /\ Truthy(event.content) -> "generic"
      [] OTHER -> "none"

Resolved(event) ==
    CASE Tier(event) = "increment" -> event.content
      [] Tier(event) \in {"output", "generic"} -> Str(PyStr(event.content))
      [] OTHER -> None

\* C7: for every event shape the translator returns the absence value exactly
\* when no tier of the priority order (content increment, run output with
\* content, generic content attribute) applies or the resolved text is empty,
\* and otherwise a chunk with id "agno", role "assistant" and the resolved
\* text as delta.
C7_TranslatorTiers ==
    \A i \in DOMAIN streams :
        stubs[i].events # <<>> =>
            LET event == Last(stubs[i].events) IN
            IF Tier(event) = "none" \/ ~Truthy(Resolved(event))
            THEN streams[i].chunk = None
            ELSE /\ streams[i].chunk # None
                 /\ streams[i].chunk.id = "agno"
                 /\ streams[i].chunk.delta =
                       [role |-> "assistant", content |-> Resolved(event)]

\* an object with a generic content attribute became a chunk of its string form
C7_Witness ==
    \E i \in DOMAIN streams :
        /\ stubs[i].events = <<Event("Other", Obj(TRUE, "7"))>>
        /\ streams[i].chunk # None
        /\ streams[i].chunk.delta.content = Str("7")

\* C10: the adapter's configuration never changes; every stream carries the
\* adapter's agent, session and user identifiers and the chat context given
\* to its chat() call; every call of the agent's run has exactly the stream's
\* input, streaming enabled and those identifiers (and no tool list); a step
\* of one stream changes no other stream, and chat() only adds a stream.
C10_Carried ==
    /\ Len(streams) = Len(requests)
    /\ \A i \in DOMAIN streams :
          /\ streams[i].agent = adapter.agent
          /\ streams[i].session_id = adapter.session_id
          /\ streams[i].user_id = adapter.user_id
          /\ streams[i].chat_ctx = requests[i].chat_ctx
          /\ \A k \in DOMAIN stubs[i].calls :
                stubs[i].calls[k] =
                    [ agent |-> adapter.agent,
                      input |-> streams[i].user_input,
                      stream |-> TRUE,
                      session_id |-> adapter.session_id,
                      user_id |-> adapter.user_id ]
C10_Frame ==
    /\ adapter' = adapter
    /\ Len(streams') >= Len(streams)
    /\ \A i \in DOMAIN streams :
          /\ streams'[i].chat_ctx = streams[i].chat_ctx
          /\ streams'[i].tools = streams[i].tools
          /\ (streams'[i] # streams[i] \/ stubs'[i] # stubs[i]) =>
                \A j \in DOMAIN streams \ {i} :
                    streams'[j] = streams[j] /\ stubs'[j] = stubs[j]
          /\ Len(streams') > Len(streams) =>
                streams'[i] = streams[i] /\ stubs'[i] = stubs[i]
C10_ConfigurationCarried == []C10_Carried /\ [][C10_Frame]_vars

\* two turns of an adapter with both identifiers set, each with its own chat
\* context, one given a tool list, both having invoked or skipped the run
C10_Witness ==
    /\ adapter.session_id = "room1"
    /\ adapter.user_id = "alice"
    /\ Len(streams) = 2
    /\ streams[1].chat_ctx # streams[2].chat_ctx
    /\ requests[2].tools = List(<<"get_weather">>)
    /\ Len(stubs[2].calls) = 1
    /\ streams[1].pc = "done"
    /\ streams[2].pc = "streaming"

=============================================================================
